---- MODULE Spec2Model ----
(***************************************************************************)
(* A model of the TPy domain-adaptation drivers: ARSVM and ARRLS           *)
(* (src/TPy/estimator/_artl.py), JDA (src/TPy/transformer/_jda.py) and VDA *)
(* (src/feature_adaptation/vda.py).                                        *)
(*                                                                         *)
(* One estimator instance is modelled at a time.  Its Python attribute     *)
(* dictionary is the function attrs: an attribute exists exactly when its  *)
(* name is in DOMAIN attrs.  A call is one action; it leaves the result of *)
(* the call (what was returned or which exception ended it) in last, and   *)
(* the caller takes the result with Return before the next call.           *)
(*                                                                         *)
(* Sample matrices have one feature column and are sequences of feature    *)
(* values, label vectors are sequences of labels.  Floating point values   *)
(* produced by a kernel are <<v>> for the finite value v and <<>> for      *)
(* not-a-number.  The numerical solvers (QP, eigen-decomposition) are      *)
(* deterministic library calls; their outputs are carried as terms naming  *)
(* the call and its arguments.                                             *)
(***************************************************************************)
EXTENDS Integers, Sequences, FiniteSets, TLC

VARIABLES driver, cfg, attrs, fitted, pc, last, eg, qf, sc

vars == <<driver, cfg, attrs, fitted, pc, last, eg, qf, sc>>

(* ------------------------------ bounds -------------------------------- *)

\* Largest number of rows of one sample matrix handed to an ARSVM, ARRLS or
\* JDA call.
MaxRows == 1
\* Largest number of rows of one sample matrix handed to a VDA call (two
\* rows let one domain hold two classes).
MaxRowsVDA == 2
\* Labels are 0..MaxLabel (0 is the label numpy treats as false).
MaxLabel == 2
\* n_components is drawn from 1..MaxComp.
MaxComp == 2

\* Feature values: 0 and 1, on which the degree-1/2 polynomial kernel below
\* is exact.
FeatureValues == {0, 1}

Labels == 0..MaxLabel

\* Sample matrices (one feature column) with 1..rows rows.
MatsUpTo(rows) == UNION {[1..n -> FeatureValues] : n \in 1..rows}
Mats == MatsUpTo(MaxRows)
VDAMats == MatsUpTo(MaxRowsVDA)

\* Label vectors of length n.
LabelVecs(n) == [1..n -> Labels]

(* ------------------------------ values -------------------------------- *)

None == [kind |-> "None", v |-> <<>>]
Ndarray(v) == [kind |-> "ndarray", v |-> v]
List(v) == [kind |-> "list", v |-> v]

Num(v) == <<v>>
NaN == <<>>
IsNaN(e) == e = <<>>

\* The exact square root of a perfect square.
Sqrt(b) == CHOOSE r \in 0..b : r * r = b

\* np.unique: the set of distinct entries.
Unique(v) == {v[i] : i \in DOMAIN v}

\* ndarray.all(): every entry is truthy (non-zero); true of the empty array.
All(S) == \A c \in S : c # 0

\* Number of rows of v that carry label c: np.where(v == c)[0].shape[0].
Count(v, c) == Cardinality({i \in DOMAIN v : v[i] = c})

\* Attribute dictionary updates: setattr(self, name, value).
SetAttr(self, name, value) == (name :> value) @@ self
HasAttr(self, name) == name \in DOMAIN self

(* ------------------------------ kernels ------------------------------- *)

\* One entry of sklearn's pairwise kernel.  "linear" is <x, y>.  "poly" is
\* the polynomial kernel (gamma <x, y> + coef0) ** degree under the keyword
\* arguments degree=0.5, gamma=2, coef0=-1: a negative base raised to 1/2
\* is not-a-number.
KernelEntry(kernel, x, y) ==
    IF kernel = "linear" THEN Num(x * y)
    ELSE LET b == 2 * x * y - 1
         IN  IF b < 0 THEN NaN ELSE Num(Sqrt(b))

\* pairwise_kernels(A, B): Len(A) rows, Len(B) columns.
PairwiseKernels(A, B, kernel) ==
    [i \in 1..Len(A) |-> [j \in 1..Len(B) |-> KernelEntry(kernel, A[i], B[j])]]

\* ker_x[np.isnan(ker_x)] = 0
NanToZero(K) ==
    [i \in DOMAIN K |-> [j \in DOMAIN K[i] |->
        IF IsNaN(K[i][j]) THEN Num(0) ELSE K[i][j]]]

HasNaN(K) == \E i \in DOMAIN K : \E j \in DOMAIN K[i] : IsNaN(K[i][j])

(* ----------------------- ARSVM / ARRLS (_artl.py) ---------------------- *)

\* mmd_coef(ns, nt, ys, yt, kind): the MMD coefficient matrix, a symmetric
\* matrix of size ns + nt that is a function of its arguments.
MmdCoef(ns, nt, ys, yt, kind) == <<"mmd_coef", ns, nt, ys, yt, kind>>

Zeros(n) == <<"zeros", n>>

\* lap_norm(X, n_neighbour, mode) fails when there are not enough distinct
\* neighbours: k >= n.
LapNormRaises(X, k) == k >= Len(X)
LapNorm(X, k) == <<"lap_norm", X, k>>

\* The kernel of the pooled training set as _init_artl hands it on.
InitArtlKernel(X, kernel) == NanToZero(PairwiseKernels(X, X, kernel))

\* _init_artl(Xs, ys, Xt, yt, metric=kernel)
InitArtl(Xs, ys, Xt, yt, kernel) ==
    LET X == IF Xt.kind = "ndarray" THEN Xs \o Xt.v ELSE Xs
        M == IF Xt.kind = "ndarray"
             THEN MmdCoef(Len(Xs), Len(Xt.v), ys, yt, "joint")
             ELSE Zeros(Len(Xs))
        y == IF yt.kind # "None" THEN ys \o yt.v ELSE ys
    IN  [X |-> X, y |-> y, ker_x |-> InitArtlKernel(X, kernel), M |-> M,
         unit_mat |-> <<"eye", Len(X)>>]

\* LabelBinarizer(pos_label=1, neg_label=-1) before any fit.
UnfittedLB == [classes_ |-> {}, y_type_ |-> "unset"]

\* LabelBinarizer.fit: classes_ and y_type_ are set from y alone.
LabelBinarizerFit(y) ==
    [classes_ |-> Unique(y),
     y_type_ |-> IF Cardinality(Unique(y)) > 2 THEN "multiclass" ELSE "binary"]

\* The matrix ARSVM.fit hands to the QP step, as a term over its factors:
\* unit_mat + multi_dot([lambda_ * M + gamma_ * lap_mat, ker_x]).
ARSVMQTerm(c, i) ==
    IF c.gamma_ # 0
    THEN <<"I+(lM+gL)K", i.M, LapNorm(i.X, c.k_neighbour), i.ker_x>>
    ELSE <<"I+(lM)K", i.M, i.ker_x>>

\* _solve_semi_dual(ker_x, y_, Q_, C, solver): coefficients and support of
\* the QP's solution, a function of the arguments.
SolveSemiDual(K, y, lb, Q) ==
    [coef_ |-> <<"coef", K, y, lb.classes_, Q>>,
     support_ |-> <<"support", K, y, lb.classes_, Q>>]

\* ARSVM.fit(Xs, ys, Xt, yt) on the instance self under configuration c;
\* qp_ok says whether the QP solver finds a solution.
ARSVMFit(self, c, Xs, ys, Xt, yt, qp_ok) ==
    LET i == InitArtl(Xs, ys, Xt, yt, c.kernel)
        lb == LabelBinarizerFit(i.y)
        s1 == SetAttr(self, "_lb", lb)
        sol == SolveSemiDual(i.ker_x, i.y, lb, ARSVMQTerm(c, i))
    IN  IF c.gamma_ # 0 /\ LapNormRaises(i.X, c.k_neighbour)
        THEN [attrs |-> s1, outcome |-> "ValueError", at |-> "lap_norm",
              nan_used |-> FALSE]
        ELSE IF ~qp_ok
        THEN [attrs |-> s1, outcome |-> "SolverError", at |-> "_solve_semi_dual",
              nan_used |-> HasNaN(i.ker_x)]
        ELSE [attrs |-> SetAttr(SetAttr(SetAttr(SetAttr(s1,
                            "coef_", sol.coef_), "support_", sol.support_),
                            "X", i.X), "y", i.y),
              outcome |-> "ok", at |-> "return", nan_used |-> HasNaN(i.ker_x)]

\* ARSVM.decision_function(X)
ARSVMDecisionFunction(self, c, X) ==
    IF ~HasAttr(self, "X") \/ ~HasAttr(self, "y")
    THEN [outcome |-> "NotFittedError", nan_used |-> FALSE]
    ELSE LET ker_x == PairwiseKernels(X, self.X, c.kernel)
         IN  [outcome |-> "ok", nan_used |-> HasNaN(ker_x),
              value |-> [kind |-> "scores", rows |-> X, ker_x |-> ker_x,
                         coef_ |-> self.coef_]]

\* ARSVM.predict(X)
ARSVMPredict(self, c, X) ==
    LET dec == ARSVMDecisionFunction(self, c, X)
    IN  IF dec.outcome # "ok" THEN dec
        ELSE [outcome |-> "ok", nan_used |-> dec.nan_used,
              value |-> [kind |-> "labels", rows |-> X,
                         dec |-> dec.value, lb |-> self._lb]]

\* The rows ARSVM.fit_predict classifies after the fit.
ARSVMFitPredictRows(self, Xt) == self.X

\* ARSVM.fit_predict(Xs, ys, Xt, yt)
ARSVMFitPredict(self, c, Xs, ys, Xt, yt, qp_ok) ==
    LET f == ARSVMFit(self, c, Xs, ys, Xt, yt, qp_ok)
    IN  IF f.outcome # "ok"
        THEN [attrs |-> f.attrs, outcome |-> f.outcome, nan_used |-> f.nan_used]
        ELSE LET p == ARSVMPredict(f.attrs, c, ARSVMFitPredictRows(f.attrs, Xt))
             IN  [attrs |-> f.attrs, outcome |-> p.outcome,
                  nan_used |-> p.nan_used, value |-> p.value]

\* The attributes numpy's ndarray has among the names the drivers read.
NdarrayAttrs == {"shape", "T", "dtype", "ndim", "size"}

\* _solve_semi_ls(Q_, y_): the solution of the regularised linear system.
SolveSemiLs(K, y, lb, Q) == <<"coef", K, y, lb.classes_, Q>>

\* (J + lambda_ * M + gamma_ * lap_mat) . ker_x + sigma_ * unit_mat, as a term.
ARRLSQTerm(c, i) ==
    IF c.gamma_ # 0
    THEN <<"(J+lM+gL)K+sI", i.M, LapNorm(i.X, c.k_neighbour), i.ker_x>>
    ELSE <<"(J+lM)K+sI", i.M, i.ker_x>>

\* ARRLS.fit(Xs, ys, Xt, yt): the first statement after _init_artl reads
\* ker_x.shap, an attribute an ndarray does not have.
ARRLSFit(self, c, Xs, ys, Xt, yt) ==
    LET i == InitArtl(Xs, ys, Xt, yt, c.kernel)
        lb == LabelBinarizerFit(i.y)
        s1 == SetAttr(self, "_lb", lb)
    IN  IF "shap" \notin NdarrayAttrs
        THEN [attrs |-> self, outcome |-> "AttributeError", at |-> "ker_x.shap",
              nan_used |-> FALSE]
        ELSE IF c.gamma_ # 0 /\ LapNormRaises(i.X, c.k_neighbour)
        THEN [attrs |-> self, outcome |-> "ValueError", at |-> "lap_norm",
              nan_used |-> FALSE]
        ELSE [attrs |-> SetAttr(SetAttr(SetAttr(s1,
                            "coef_", SolveSemiLs(i.ker_x, i.y, lb, ARRLSQTerm(c, i))),
                            "X", i.X), "y", i.y),
              outcome |-> "ok", at |-> "return", nan_used |-> HasNaN(i.ker_x)]

\* ARRLS.decision_function(X): reads self.X without a fitted check.
ARRLSDecisionFunction(self, c, X) ==
    IF ~HasAttr(self, "X")
    THEN [outcome |-> "AttributeError", nan_used |-> FALSE]
    ELSE LET ker_x == PairwiseKernels(X, self.X, c.kernel)
         IN  [outcome |-> "ok", nan_used |-> HasNaN(ker_x),
              value |-> [kind |-> "scores", rows |-> X, ker_x |-> ker_x,
                         coef_ |-> self.coef_]]

\* ARRLS.predict(X)
ARRLSPredict(self, c, X) ==
    LET dec == ARRLSDecisionFunction(self, c, X)
    IN  IF dec.outcome # "ok" THEN dec
        ELSE [outcome |-> "ok", nan_used |-> dec.nan_used,
              value |-> [kind |-> "labels", rows |-> X,
                         dec |-> dec.value, lb |-> self._lb]]

\* ARRLS.fit_predict(Xs, ys, Xt, yt): fit, then predict(Xt).
ARRLSFitPredict(self, c, Xs, ys, Xt, yt) ==
    LET f == ARRLSFit(self, c, Xs, ys, Xt, yt)
    IN  IF f.outcome # "ok"
        THEN [attrs |-> f.attrs, outcome |-> f.outcome, nan_used |-> FALSE]
        ELSE IF Xt.kind = "None"
        THEN [attrs |-> f.attrs, outcome |-> "ValueError", nan_used |-> FALSE]
        ELSE LET p == ARRLSPredict(f.attrs, c, Xt.v)
             IN  [attrs |-> f.attrs, outcome |-> p.outcome,
                  nan_used |-> p.nan_used, value |-> p.value]

(* ------------------------------ JDA (_jda.py) -------------------------- *)

\* base_init(X, kernel): the pooled kernel matrix (not-a-number entries set
\* to 0 by the kernel builder), with the identity and centering matrices.
BaseInitKernel(X, kernel) == NanToZero(PairwiseKernels(X, X, kernel))

\* The eigenvectors of eig(obj, st), every column kept, ordered by
\* ascending absolute eigenvalue: a matrix with one row per pooled sample.
\* X is the pooled sample set the kernel matrix was built on.
JDABasis(X, kernel, L) ==
    [n |-> Len(X), X |-> X,
     vecs |-> <<"eig", BaseInitKernel(X, kernel), L>>]

\* The pooled sample set JDA.fit builds its kernel matrix on.
JDAFitPool(Xs, Xt) == IF Xt.kind = "ndarray" THEN Xs \o Xt.v ELSE Xs

\* JDA.fit as it would be if it stored Xt only when one is given
\* (if Xt is not None: self.Xt = Xt): an earlier fit's Xt stays behind.
JDAFitKeepsXt(self, c, Xs, ys, Xt, yt) ==
    LET X == JDAFitPool(Xs, Xt)
        L == IF Xt.kind = "ndarray"
             THEN IF ys.kind # "None" /\ yt.kind # "None"
                  THEN MmdCoef(Len(Xs), Len(Xt.v), ys.v, yt.v, "joint")
                  ELSE MmdCoef(Len(Xs), Len(Xt.v), <<>>, <<>>, "marginal")
             ELSE Zeros(Len(X))
        kept == IF Xt.kind = "None" /\ HasAttr(self, "Xt") THEN self.Xt ELSE Xt
    IN  [attrs |-> SetAttr(SetAttr(SetAttr(self,
                       "U", JDABasis(X, c.kernel, L)), "Xs", Xs), "Xt", kept),
         outcome |-> "ok", at |-> "return",
         nan_used |-> HasNaN(BaseInitKernel(X, c.kernel))]

\* JDA.fit(Xs, ys, Xt, yt)
JDAFit(self, c, Xs, ys, Xt, yt) ==
    LET X == JDAFitPool(Xs, Xt)
        L == IF Xt.kind = "ndarray"
             THEN IF ys.kind # "None" /\ yt.kind # "None"
                  THEN MmdCoef(Len(Xs), Len(Xt.v), ys.v, yt.v, "joint")
                  ELSE MmdCoef(Len(Xs), Len(Xt.v), <<>>, <<>>, "marginal")
             ELSE Zeros(Len(X))
    IN  [attrs |-> SetAttr(SetAttr(SetAttr(self,
                       "U", JDABasis(X, c.kernel, L)), "Xs", Xs), "Xt", Xt),
         outcome |-> "ok", at |-> "return",
         nan_used |-> HasNaN(BaseInitKernel(X, c.kernel))]

Min(a, b) == IF a < b THEN a ELSE b

\* JDA.transform(X): X_fit = np.vstack((self.Xs, self.Xt)); stacking the
\* sample matrix with None yields no usable matrix, and np.dot needs as many
\* kernel columns as U has rows.
JDATransform(self, c, X) ==
    IF ~HasAttr(self, "Xs") \/ ~HasAttr(self, "Xt")
    THEN [outcome |-> "AttributeError", nan_used |-> FALSE]
    ELSE IF self.Xt.kind = "None"
    THEN [outcome |-> "ValueError", nan_used |-> FALSE, at |-> "vstack"]
    ELSE LET X_fit == self.Xs \o self.Xt.v
             ker_x == PairwiseKernels(X, X_fit, c.kernel)
         IN  IF Len(X_fit) # self.U.n
             THEN [outcome |-> "ValueError", nan_used |-> HasNaN(ker_x),
                   at |-> "dot", X_fit |-> X_fit]
             ELSE [outcome |-> "ok", nan_used |-> HasNaN(ker_x),
                   X_fit |-> X_fit,
                   value |-> [kind |-> "embedding", rows |-> X,
                              ker_x |-> ker_x, vecs |-> self.U.vecs,
                              ncols |-> Min(c.n_components, self.U.n)]]

(* ------------------------------ VDA (vda.py) --------------------------- *)

\* kernel_all in VDA.get_kernel
KernelAll == {"linear", "rbf", "poly"}

\* VDA.get_kernel(X, None): the kernel function applied as it is.
VDAGetKernel(X, kernel) == PairwiseKernels(X, X, kernel)

\* class_all.all() != np.unique(yt).all()
VDALabelCheckFails(ys, yt) == All(Unique(ys)) # All(Unique(yt))

\* len(yt) != 0 and len(yt) == nt
VDASizeCheckPasses(yt, nt) == Len(yt) # 0 /\ Len(yt) = nt

\* The basis VDA.fit stores: X.T . W transposed, W the n_components
\* eigenvectors of eig(obj, st) with the smallest absolute eigenvalues.
VDAComponents(X, y, ns, c) ==
    <<"components", X, y, ns, c.kernel_type, c.n_components>>

\* VDA.fit as it would be if the class means were looked up leniently
\* (mean.get(y[i], 0)): a target label without a source row raises nothing.
VDAFitStepsLenientMean(c, Xs, Xt, ys, yt) ==
    LET X == Xs \o Xt
        n == Len(X)
        ns == Len(Xs)
        nt == Len(Xt)
        class_all == Unique(ys)
        y == ys \o yt
        K == VDAGetKernel(X, c.kernel_type)
        Raise(exc, at, stages, nan) ==
            [outcome |-> exc, at |-> at, stages |-> stages, nan_used |-> nan]
    IN  IF VDALabelCheckFails(ys, yt)
        THEN Raise("SystemExit", "labels", {}, FALSE)
        ELSE IF ~VDASizeCheckPasses(yt, nt)
        THEN Raise("SystemExit", "size", {"L"}, FALSE)
        ELSE IF \E cl \in class_all : Count(yt, cl) = 0
        THEN Raise("ZeroDivisionError", "e2", {"L"}, FALSE)
        ELSE IF c.kernel_type \notin KernelAll
        THEN Raise("SystemExit", "kernel", {"L"}, FALSE)
        ELSE IF HasNaN(K)
        THEN Raise("ValueError", "eig", {"L", "K", "eig"}, TRUE)
        ELSE IF c.n_components > n /\ n # 1
        THEN Raise("ValueError", "W", {"L", "K", "eig"}, FALSE)
        ELSE [outcome |-> "ok", at |-> "return",
              stages |-> {"L", "K", "eig"}, nan_used |-> FALSE,
              components_ |-> VDAComponents(X, y, ns, c)]

\* The statements of VDA.fit up to the eigen-decomposition and the choice of
\* W (they read the hyper-parameters only).  stages lists the matrices the
\* call went on to build ("L", "K") and whether it called the eigen-solver
\* ("eig"); nan_used says whether a kernel matrix holding not-a-number
\* entered a matrix product or the solver.
VDAFitSteps(c, Xs, Xt, ys, yt) ==
    LET X == Xs \o Xt
        n == Len(X)
        ns == Len(Xs)
        nt == Len(Xt)
        class_all == Unique(ys)
        y == ys \o yt
        K == VDAGetKernel(X, c.kernel_type)
        Raise(exc, at, stages, nan) ==
            [outcome |-> exc, at |-> at, stages |-> stages, nan_used |-> nan]
    IN  IF VDALabelCheckFails(ys, yt)
        THEN Raise("SystemExit", "labels", {}, FALSE)
        ELSE IF ~VDASizeCheckPasses(yt, nt)
        THEN Raise("SystemExit", "size", {"L"}, FALSE)
        ELSE IF \E cl \in class_all : Count(yt, cl) = 0
        THEN Raise("ZeroDivisionError", "e2", {"L"}, FALSE)
        ELSE IF c.kernel_type \notin KernelAll
        THEN Raise("SystemExit", "kernel", {"L"}, FALSE)
        ELSE IF \E i \in 1..n : y[i] \notin class_all
        THEN Raise("KeyError", "mean", {"L", "K"}, HasNaN(K))
        ELSE IF HasNaN(K)
        THEN Raise("ValueError", "eig", {"L", "K", "eig"}, TRUE)
        ELSE IF c.n_components > n /\ n # 1
        THEN Raise("ValueError", "W", {"L", "K", "eig"}, FALSE)
        ELSE [outcome |-> "ok", at |-> "return",
              stages |-> {"L", "K", "eig"}, nan_used |-> FALSE,
              components_ |-> VDAComponents(X, y, ns, c)]

\* VDA.fit as it would be if it cleared the old basis before validating
\* its arguments (self.components_ = None as the first statement).
VDAFitClearsFirst(self, c, Xs, Xt, ys, yt) ==
    LET r == VDAFitSteps(c, Xs, Xt, ys, yt)
    IN  [attrs |-> IF r.outcome = "ok"
                   THEN SetAttr(self, "components_", r.components_)
                   ELSE SetAttr(self, "components_", <<"None">>),
         outcome |-> r.outcome, at |-> r.at, stages |-> r.stages,
         nan_used |-> r.nan_used]

\* VDA.fit(Xs, Xt, ys, yt): components_ is assigned once W is there.
VDAFit(self, c, Xs, Xt, ys, yt) ==
    LET r == VDAFitSteps(c, Xs, Xt, ys, yt)
    IN  [attrs |-> IF r.outcome = "ok"
                   THEN SetAttr(self, "components_", r.components_)
                   ELSE self,
         outcome |-> r.outcome, at |-> r.at, stages |-> r.stages,
         nan_used |-> r.nan_used]

\* VDA.transform(X)
VDATransform(self, c, X) ==
    IF ~HasAttr(self, "components_")
    THEN [outcome |-> "AttributeError", nan_used |-> FALSE]
    ELSE [outcome |-> "ok", nan_used |-> FALSE,
          value |-> [kind |-> "embedding", rows |-> X,
                     components_ |-> self.components_]]

(* ------------------------------ the calls ------------------------------ *)

\* The target sample argument: absent, an ndarray, or a list of rows.
TargetArgs == {None} \cup {Ndarray(m) : m \in Mats} \cup {List(m) : m \in Mats}

\* Labels of the first ntl target rows, 1 <= ntl <= nt, or None.
PartialLabels(nt) == {None} \cup {Ndarray(l) : l \in UNION {LabelVecs(k) : k \in 1..nt}}

\* yt of an ARSVM / ARRLS fit: target labels come with an ndarray Xt.
ArtlYt(Xt) == IF Xt.kind = "ndarray" THEN PartialLabels(Len(Xt.v)) ELSE {None}

\* ys and yt of a JDA fit: both optional, each covering its domain's rows.
OptLabels(n) == {None} \cup {Ndarray(l) : l \in LabelVecs(n)}
JDAYt(Xt) == IF Xt.kind = "None" THEN {None} ELSE OptLabels(Len(Xt.v))

\* yt of a VDA fit: any label vector of 0..MaxRowsVDA entries.
VDAYt == UNION {LabelVecs(k) : k \in 0..MaxRowsVDA}

NoCall == [op |-> "none"]
NoEg == [op |-> "none"]
NoQf == [op |-> "none"]
NoSc == [op |-> "none"]

\* __init__ of each driver: the hyper-parameters, and the attributes set.
Configs(d) ==
    CASE d \in {"ARSVM", "ARRLS"} ->
            {[kernel |-> k, gamma_ |-> g[1], k_neighbour |-> g[2]] :
                k \in {"linear", "poly"}, g \in {<<0, 5>>, <<1, 1>>}}
      [] d = "JDA" ->
            {[kernel |-> k, n_components |-> nc] :
                k \in {"linear", "poly"}, nc \in 1..MaxComp}
      [] d = "VDA" ->
            {[kernel_type |-> k, n_components |-> nc] :
                k \in {"linear", "poly", "cosine"}, nc \in 1..MaxComp}

InitAttrs(d) ==
    IF d \in {"ARSVM", "ARRLS"} THEN SetAttr(<<>>, "_lb", UnfittedLB) ELSE <<>>

Init ==
    /\ driver \in {"ARSVM", "ARRLS", "JDA", "VDA"}
    /\ cfg \in Configs(driver)
    /\ attrs = InitAttrs(driver)
    /\ fitted = FALSE
    /\ pc = "idle"
    /\ last = NoCall
    /\ eg = NoEg
    /\ qf = NoQf
    /\ sc = NoSc

\* A fit call ended with result r.  last keeps the call: its arguments, the
\* attributes the instance had before it, and how it ended.
FitReturns(op, args, r) ==
    /\ attrs' = r.attrs
    /\ fitted' = (fitted \/ r.outcome = "ok")
    /\ pc' = "returned"
    /\ last' = [op |-> op, args |-> args, before |-> attrs,
                res |-> [f \in DOMAIN r \ {"attrs"} |-> r[f]]]
    /\ UNCHANGED <<driver, cfg, eg, qf, sc>>

\* A call that reads the instance ended with result r.
QueryReturns(op, args, r) ==
    /\ pc' = "returned"
    /\ last' = [op |-> op, args |-> args, before |-> attrs, res |-> r]
    /\ UNCHANGED <<driver, cfg, attrs, fitted, eg, qf, sc>>

ARSVMFitCall ==
    /\ driver = "ARSVM" /\ pc = "idle"
    /\ \E Xs \in Mats, Xt \in TargetArgs, qp_ok \in BOOLEAN :
       \E ys \in LabelVecs(Len(Xs)), yt \in ArtlYt(Xt) :
          FitReturns("fit", [Xs |-> Xs, ys |-> ys, Xt |-> Xt, yt |-> yt, qp_ok |-> qp_ok],
                     ARSVMFit(attrs, cfg, Xs, ys, Xt, yt, qp_ok))

ARSVMDecisionFunctionCall ==
    /\ driver = "ARSVM" /\ pc = "idle"
    /\ \E X \in Mats :
          QueryReturns("decision_function", [X |-> X], ARSVMDecisionFunction(attrs, cfg, X))

ARSVMPredictCall ==
    /\ driver = "ARSVM" /\ pc = "idle"
    /\ \E X \in Mats :
          QueryReturns("predict", [X |-> X], ARSVMPredict(attrs, cfg, X))

ARSVMFitPredictCall ==
    /\ driver = "ARSVM" /\ pc = "idle"
    /\ \E Xs \in Mats, Xt \in TargetArgs, qp_ok \in BOOLEAN :
       \E ys \in LabelVecs(Len(Xs)), yt \in ArtlYt(Xt) :
          FitReturns("fit_predict", [Xs |-> Xs, ys |-> ys, Xt |-> Xt, yt |-> yt, qp_ok |-> qp_ok],
                     ARSVMFitPredict(attrs, cfg, Xs, ys, Xt, yt, qp_ok))

ARRLSFitCall ==
    /\ driver = "ARRLS" /\ pc = "idle"
    /\ \E Xs \in Mats, Xt \in TargetArgs :
       \E ys \in LabelVecs(Len(Xs)), yt \in ArtlYt(Xt) :
          FitReturns("fit", [Xs |-> Xs, ys |-> ys, Xt |-> Xt, yt |-> yt],
                     ARRLSFit(attrs, cfg, Xs, ys, Xt, yt))

ARRLSDecisionFunctionCall ==
    /\ driver = "ARRLS" /\ pc = "idle"
    /\ \E X \in Mats :
          QueryReturns("decision_function", [X |-> X], ARRLSDecisionFunction(attrs, cfg, X))

ARRLSPredictCall ==
    /\ driver = "ARRLS" /\ pc = "idle"
    /\ \E X \in Mats :
          QueryReturns("predict", [X |-> X], ARRLSPredict(attrs, cfg, X))

ARRLSFitPredictCall ==
    /\ driver = "ARRLS" /\ pc = "idle"
    /\ \E Xs \in Mats, Xt \in TargetArgs :
       \E ys \in LabelVecs(Len(Xs)), yt \in ArtlYt(Xt) :
          FitReturns("fit_predict", [Xs |-> Xs, ys |-> ys, Xt |-> Xt, yt |-> yt],
                     ARRLSFitPredict(attrs, cfg, Xs, ys, Xt, yt))

JDAFitCall ==
    /\ driver = "JDA" /\ pc = "idle"
    /\ \E Xs \in Mats, Xt \in TargetArgs :
       \E ys \in OptLabels(Len(Xs)), yt \in JDAYt(Xt) :
          FitReturns("fit", [Xs |-> Xs, ys |-> ys, Xt |-> Xt, yt |-> yt],
                     JDAFit(attrs, cfg, Xs, ys, Xt, yt))

JDATransformCall ==
    /\ driver = "JDA" /\ pc = "idle"
    /\ \E X \in Mats :
          QueryReturns("transform", [X |-> X], JDATransform(attrs, cfg, X))

VDAFitCall ==
    /\ driver = "VDA" /\ pc = "idle"
    /\ \E Xs \in VDAMats, Xt \in VDAMats, yt \in VDAYt :
       \E ys \in LabelVecs(Len(Xs)) :
          FitReturns("fit", [Xs |-> Xs, Xt |-> Xt, ys |-> ys, yt |-> yt],
                     VDAFit(attrs, cfg, Xs, Xt, ys, yt))

VDATransformCall ==
    /\ driver = "VDA" /\ pc = "idle"
    /\ \E X \in VDAMats :
          QueryReturns("transform", [X |-> X], VDATransform(attrs, cfg, X))

\* The caller takes the result of the call.
Return ==
    /\ pc = "returned"
    /\ pc' = "idle"
    /\ last' = NoCall
    /\ UNCHANGED <<driver, cfg, attrs, fitted, eg, qf, sc>>

Next ==
    \/ ARSVMFitCall
    \/ ARSVMDecisionFunctionCall
    \/ ARSVMPredictCall
    \/ ARSVMFitPredictCall
    \/ ARRLSFitCall
    \/ ARRLSDecisionFunctionCall
    \/ ARRLSPredictCall
    \/ ARRLSFitPredictCall
    \/ JDAFitCall
    \/ JDATransformCall
    \/ VDAFitCall
    \/ VDATransformCall
    \/ Return

Spec == Init /\ [][Next]_vars

(* --------------------- one driver family at a time --------------------- *)

InitARTL == Init /\ driver \in {"ARSVM", "ARRLS"}

NextARTL ==
    \/ ARSVMFitCall
    \/ ARSVMDecisionFunctionCall
    \/ ARSVMPredictCall
    \/ ARSVMFitPredictCall
    \/ ARRLSFitCall
    \/ ARRLSDecisionFunctionCall
    \/ ARRLSPredictCall
    \/ ARRLSFitPredictCall
    \/ Return

SpecARTL == InitARTL /\ [][NextARTL]_vars

InitJDA == Init /\ driver = "JDA"

NextJDA ==
    \/ JDAFitCall
    \/ JDATransformCall
    \/ Return

SpecJDA == InitJDA /\ [][NextJDA]_vars

InitVDA == Init /\ driver = "VDA"

NextVDA ==
    \/ VDAFitCall
    \/ VDATransformCall
    \/ Return

SpecVDA == InitVDA /\ [][NextVDA]_vars

(* ------------------------------ the claims ----------------------------- *)

\* A call of op on driver d has just ended.
Returned(d, op) == pc = "returned" /\ driver = d /\ last.op = op

\* C1: a VDA.fit whose ys and yt have different sets of distinct labels (yt
\* labelling every target row) ends with the label-mismatch exit and builds
\* neither L nor K nor the eigenproblem.
C1_LabelMismatchExits ==
    (Returned("VDA", "fit") /\ Unique(last.args.ys) # Unique(last.args.yt)
        /\ Len(last.args.yt) = Len(last.args.Xt))
        => /\ last.res.outcome = "SystemExit"
           /\ last.res.at = "labels"
           /\ last.res.stages = {}

\* C2: an ARRLS.fit on well-formed inputs (no manifold term, so no
\* neighbourhood graph can fail) completes and leaves coef_, X and y on the
\* instance.
C2_ARRLSFitCompletes ==
    (Returned("ARRLS", "fit") /\ cfg.gamma_ = 0)
        => /\ last.res.outcome = "ok"
           /\ {"coef_", "X", "y"} \subseteq DOMAIN attrs

\* C3: decision_function and predict of an ARSVM or ARRLS instance on which
\* no fit has completed end with the unfitted-model error.
C3_UnfittedIsNotFittedError ==
    \A d \in {"ARSVM", "ARRLS"}, op \in {"decision_function", "predict"} :
        (Returned(d, op) /\ ~fitted) => last.res.outcome = "NotFittedError"

\* C4: after a completed JDA.fit, transform evaluates the kernel against the
\* pooled sample set the fit built its kernel matrix on, in the same row
\* order, and returns an embedding.
C4_TransformUsesFitPool ==
    (Returned("JDA", "transform") /\ fitted)
        => /\ last.res.outcome = "ok"
           /\ last.res.X_fit = attrs.U.X

\* C5: a fit_predict of ARSVM or ARRLS with target data that returns, returns
\* one label per row of Xt, in target row order, and none for source rows.
C5_FitPredictClassifiesXt ==
    \A d \in {"ARSVM", "ARRLS"} :
        (Returned(d, "fit_predict") /\ last.args.Xt.kind # "None"
            /\ last.res.outcome = "ok")
        => /\ last.res.value.kind = "labels"
           /\ last.res.value.rows = last.args.Xt.v

\* C6: no kernel matrix holding a not-a-number entry enters a matrix product
\* or a solver, in any call of any driver.
C6_NoNaNDownstream ==
    pc = "returned" => ~last.res.nan_used
\* The outcome of the same fit on an instance fresh from __init__.
FreshFit(d, c, a) ==
    CASE d = "ARSVM" -> ARSVMFit(InitAttrs(d), c, a.Xs, a.ys, a.Xt, a.yt, a.qp_ok)
      [] d = "JDA" -> JDAFit(InitAttrs(d), c, a.Xs, a.ys, a.Xt, a.yt)
      [] d = "VDA" -> VDAFit(InitAttrs(d), c, a.Xs, a.Xt, a.ys, a.yt)

\* C7: whatever calls came before, a completed fit of ARSVM, JDA or VDA
\* leaves exactly the attributes a fresh instance has after the same fit.
C7_RefitEqualsFreshFit ==
    \A d \in {"ARSVM", "JDA", "VDA"} :
        (Returned(d, "fit") /\ last.res.outcome = "ok")
            => attrs = FreshFit(d, cfg, last.args).attrs

\* A completed fit on an instance that an earlier fit had left in another
\* fitted state.
C7_Witness ==
    /\ pc = "returned" /\ last.op = "fit" /\ last.res.outcome = "ok"
    /\ driver \in {"ARSVM", "JDA", "VDA"}
    /\ DOMAIN last.before = DOMAIN attrs
    /\ last.before # attrs

\* C8: a VDA.fit whose yt does not have one label per row of Xt ends with a
\* fatal error before the eigen-solver is called, and leaves the attributes
\* (components_ unset or the earlier basis) as they were.
C8_SizeMismatchNoPartialFit ==
    (Returned("VDA", "fit") /\ Len(last.args.yt) # Len(last.args.Xt))
        => /\ last.res.outcome # "ok"
           /\ "eig" \notin last.res.stages
           /\ attrs = last.before

\* A fit with an empty yt on an instance that holds a basis.
C8_Witness ==
    /\ Returned("VDA", "fit")
    /\ Len(last.args.yt) = 0
    /\ HasAttr(last.before, "components_")

(* --------------- the matrix of ARSVM's QP, on numbers ------------------ *)

\* Bounds of the numeric instances: rows of the pooled set, and the
\* multiples taken for the two regularisation weights.
MaxDim == 3
MaxWeight == 2

\* np.eye(n)
Eye(n) == [i \in 1..n |-> [j \in 1..n |-> IF i = j THEN 1 ELSE 0]]

MatAdd(A, B) == [i \in DOMAIN A |-> [j \in DOMAIN A[i] |-> A[i][j] + B[i][j]]]

MatScale(a, A) == [i \in DOMAIN A |-> [j \in DOMAIN A[i] |-> a * A[i][j]]]

RECURSIVE SumTo(_, _)
SumTo(f, n) == IF n = 0 THEN 0 ELSE f[n] + SumTo(f, n - 1)

\* multi_dot([A, B]): rows of A against columns of B.
MultiDot(A, B) ==
    [i \in DOMAIN A |-> [j \in DOMAIN B[1] |->
        SumTo([k \in DOMAIN B |-> A[i][k] * B[k][j]], Len(B))]]

\* The kernel _init_artl returns, as a matrix of numbers (no NaN is left).
KernelNumbers(X, kernel) ==
    LET K == InitArtlKernel(X, kernel)
    IN  [i \in DOMAIN K |-> [j \in DOMAIN K[i] |-> K[i][j][1]]]

\* The marginal MMD matrix e e^T, e = (1/ns, .., -1/nt, ..), times
\* (ns * nt)^2: the product lambda_ * M for lambda_ = w * (ns * nt)^2 is w
\* times this integer matrix.
MmdMarginalScaled(ns, nt) ==
    LET e == [i \in 1..(ns + nt) |-> IF i <= ns THEN nt ELSE -ns]
    IN  [i \in 1..(ns + nt) |-> [j \in 1..(ns + nt) |-> e[i] * e[j]]]

\* The normalised Laplacian I - W / (n - 1) of the complete neighbour graph
\* (n_neighbour = n - 1, connectivity weights), times n - 1: the product
\* gamma_ * lap_mat for gamma_ = w * (n - 1) is w times this integer matrix.
LapCompleteScaled(n) ==
    [i \in 1..n |-> [j \in 1..n |-> IF i = j THEN n - 1 ELSE -1]]

\* ARSVM.fit with K as the left factor: unit_mat + multi_dot([ker_x, lM + gL]).
ARSVMQLeftKernel(unit_mat, lM, gamma_, gL, ker_x) ==
    IF gamma_ # 0
    THEN [Q_ |-> MatAdd(unit_mat, MultiDot(ker_x, MatAdd(lM, gL))),
          lap_norm_called |-> TRUE]
    ELSE [Q_ |-> MatAdd(unit_mat, MultiDot(ker_x, lM)),
          lap_norm_called |-> FALSE]

\* ARSVM.fit's two branches for Q_; lM is lambda_ * M and gL is
\* gamma_ * lap_mat, which only the first branch asks for.
ARSVMQ(unit_mat, lM, gamma_, gL, ker_x) ==
    IF gamma_ # 0
    THEN [Q_ |-> MatAdd(unit_mat, MultiDot(MatAdd(lM, gL), ker_x)),
          lap_norm_called |-> TRUE]
    ELSE [Q_ |-> MatAdd(unit_mat, MultiDot(lM, ker_x)),
          lap_norm_called |-> FALSE]

\* The numeric inputs: a source and a target block, a kernel, and the two
\* weights.
QInputs ==
    { [op |-> "input", Xs |-> Xs, Xt |-> Xt, kernel |-> k,
       gamma_ |-> g * (Len(Xs) + Len(Xt) - 1),
       lM |-> MatScale(l, MmdMarginalScaled(Len(Xs), Len(Xt))),
       gL |-> MatScale(g, LapCompleteScaled(Len(Xs) + Len(Xt)))] :
        Xs \in MatsUpTo(MaxDim - 1), Xt \in MatsUpTo(MaxDim - 1),
        k \in {"linear", "poly"}, l \in 0..MaxWeight, g \in 0..MaxWeight }

InitQ ==
    /\ driver = "ARSVM"
    /\ cfg = [kernel |-> "linear", gamma_ |-> 0, k_neighbour |-> 5]
    /\ attrs = InitAttrs("ARSVM")
    /\ fitted = FALSE
    /\ pc = "idle"
    /\ last = NoCall
    /\ eg = NoEg
    /\ sc = NoSc
    /\ qf \in { q \in QInputs : Len(q.Xs) + Len(q.Xt) <= MaxDim }

\* Lines 130-139 of ARSVM.fit on the numeric instance.
ARSVMFormQ ==
    /\ qf.op = "input"
    /\ LET X == qf.Xs \o qf.Xt
           r == ARSVMQ(Eye(Len(X)), qf.lM, qf.gamma_, qf.gL,
                       KernelNumbers(X, qf.kernel))
       IN  qf' = [qf EXCEPT !.op = "Q"] @@
                 [ker_x |-> KernelNumbers(X, qf.kernel), Q_ |-> r.Q_,
                  lap_norm_called |-> r.lap_norm_called]
    /\ UNCHANGED <<driver, cfg, attrs, fitted, pc, last, eg, sc>>

NextQ == ARSVMFormQ

SpecQ == InitQ /\ [][NextQ]_vars

\* The entry (i, j) of I + A B.
EntryOfIPlus(A, B, i, j) ==
    (IF i = j THEN 1 ELSE 0) + SumTo([k \in DOMAIN B |-> A[i][k] * B[k][j]], Len(B))

\* lambda_ * M + gamma_ * L of the instance, with the Laplacian term dropped
\* when gamma_ = 0.
Regulariser == IF qf.gamma_ = 0 THEN qf.lM ELSE MatAdd(qf.lM, qf.gL)

\* C9, as stated: Q = I + K (lambda M + gamma L), the kernel on the left.
C9_KernelLeftFactor ==
    qf.op = "Q" =>
        \A i \in DOMAIN qf.Q_ : \A j \in DOMAIN qf.Q_ :
            qf.Q_[i][j] = EntryOfIPlus(qf.ker_x, Regulariser, i, j)

\* C9, amended: the matrix handed to the QP step is
\* Q = I + (lambda M + gamma L) K, the kernel being the right factor; when
\* gamma = 0 the Laplacian is not computed and Q = I + (lambda M) K.
C9_KernelRightFactor ==
    qf.op = "Q" =>
        /\ \A i \in DOMAIN qf.Q_ : \A j \in DOMAIN qf.Q_ :
               qf.Q_[i][j] = EntryOfIPlus(Regulariser, qf.ker_x, i, j)
        /\ qf.lap_norm_called = (qf.gamma_ # 0)

\* A Q formed from a kernel and a regulariser that do not commute.
C9_Witness ==
    /\ qf.op = "Q"
    /\ qf.gamma_ # 0
    /\ MultiDot(qf.ker_x, Regulariser) # MultiDot(Regulariser, qf.ker_x)

(* ------------- eigenvector selection of JDA and VDA -------------------- *)

\* Bounds of the eigenvalue lists: their length, which also bounds
\* n_components, and the magnitude of an eigenvalue.
MaxEig == 3
MaxEv == 2

Abs(x) == IF x < 0 THEN -x ELSE x

\* ev_abs = np.array(list(map(lambda item: np.abs(item), eig_values)))
EvAbs(eig_values) == [i \in DOMAIN eig_values |-> Abs(eig_values[i])]

\* np.argsort(a): the indices of a in ascending order of value, equal
\* values in index order (arrays this short are sorted by insertion).
Argsort(a) ==
    CHOOSE p \in [DOMAIN a -> DOMAIN a] :
        \A i \in DOMAIN a : \A j \in DOMAIN a :
            i < j => \/ a[p[i]] < a[p[j]]
                     \/ (a[p[i]] = a[p[j]] /\ p[i] < p[j])

\* JDA.fit: U[:, :] = eig_vectors[:, idx_sorted] keeps every column; column
\* j of U is the eigenvector of index idx_sorted[j].
JDASortColumns(eig_values) == Argsort(EvAbs(eig_values))

\* JDA.transform without the truncation: the whole of self.U.
JDAUsedColumnsAll(U, n_components) == U

\* JDA.transform: self.U[:, :self.n_components]
JDAUsedColumns(U, n_components) == SubSeq(U, 1, Min(n_components, Len(U)))

\* VDA.fit: idx_sorted = np.argsort(ev_abs)[:n_components], then
\* W[:, :] = eig_vecs[:, idx_sorted] into an n x n_components array of
\* zeros, which fails to broadcast when there are fewer than n_components
\* eigenvectors (a single one is repeated).
VDASelectColumns(eig_values, n_components) ==
    LET n == Len(eig_values)
        idx_sorted == SubSeq(Argsort(EvAbs(eig_values)), 1,
                             Min(n_components, n))
    IN  IF n_components <= n
        THEN [outcome |-> "ok", used |-> idx_sorted]
        ELSE IF n = 1
        THEN [outcome |-> "ok", used |-> [j \in 1..n_components |-> 1]]
        ELSE [outcome |-> "ValueError", used |-> <<>>]

InitEig ==
    /\ driver = "JDA"
    /\ cfg = [kernel |-> "linear", n_components |-> 1]
    /\ attrs = InitAttrs("JDA")
    /\ fitted = FALSE
    /\ pc = "idle"
    /\ last = NoCall
    /\ qf = NoQf
    /\ sc = NoSc
    /\ \E n \in 1..MaxEig :
           eg \in [op : {"input"}, eig_values : [1..n -> (-MaxEv)..MaxEv],
                   n_components : 1..MaxEig]

\* Lines 78-86 of JDA.fit on the eigenvalue list.
JDAFitSort ==
    /\ eg.op = "input"
    /\ eg' = [eg EXCEPT !.op = "JDA.fit"] @@
             [U |-> JDASortColumns(eg.eig_values)]
    /\ UNCHANGED <<driver, cfg, attrs, fitted, pc, last, qf, sc>>

\* Line 110 of JDA.transform on the stored U.
JDATransformSelect ==
    /\ eg.op = "JDA.fit"
    /\ eg' = [eg EXCEPT !.op = "JDA.transform"] @@
             [outcome |-> "ok", used |-> JDAUsedColumns(eg.U, eg.n_components)]
    /\ UNCHANGED <<driver, cfg, attrs, fitted, pc, last, qf, sc>>

\* Lines 120-129 of VDA.fit on the eigenvalue list.
VDAFitSelect ==
    /\ eg.op = "input"
    /\ LET r == VDASelectColumns(eg.eig_values, eg.n_components)
       IN  eg' = [eg EXCEPT !.op = "VDA.fit"] @@
                 [outcome |-> r.outcome, used |-> r.used]
    /\ UNCHANGED <<driver, cfg, attrs, fitted, pc, last, qf, sc>>

NextEig == JDAFitSort \/ JDATransformSelect \/ VDAFitSelect

SpecEig == InitEig /\ [][NextEig]_vars

\* used lists k distinct eigenvectors, none of the others has a smaller
\* absolute eigenvalue, and they come in ascending order of it.
SmallestAscending(used, eig_values, k) ==
    LET chosen == {used[i] : i \in DOMAIN used}
    IN  /\ Len(used) = k
        /\ Cardinality(chosen) = k
        /\ \A i \in DOMAIN used : \A j \in DOMAIN used :
               i < j => Abs(eig_values[used[i]]) <= Abs(eig_values[used[j]])
        /\ \A c \in chosen : \A o \in DOMAIN eig_values \ chosen :
               Abs(eig_values[c]) <= Abs(eig_values[o])

\* C10: with n_components no more than the number of eigenvectors, the
\* columns JDA.transform uses and the columns VDA.fit keeps are the
\* n_components eigenvectors of smallest absolute eigenvalue in ascending
\* order, and each driver's choice is the other's for the same list.
C10_SameSmallestColumns ==
    (/\ eg.op \in {"JDA.transform", "VDA.fit"}
     /\ eg.n_components <= Len(eg.eig_values))
        => /\ eg.outcome = "ok"
           /\ SmallestAscending(eg.used, eg.eig_values, eg.n_components)
           /\ eg.op = "JDA.transform" =>
                  eg.used = VDASelectColumns(eg.eig_values, eg.n_components).used
           /\ eg.op = "VDA.fit" =>
                  eg.used = JDAUsedColumns(JDASortColumns(eg.eig_values),
                                           eg.n_components)

\* JDA.transform leaves eigenvectors out, and the one of smallest absolute
\* value is a negative eigenvalue that is not first in the list.
C10_Witness ==
    /\ eg.op = "JDA.transform"
    /\ 1 < eg.n_components /\ eg.n_components < Len(eg.eig_values)
    /\ eg.used[1] # 1
    /\ eg.eig_values[eg.used[1]] < 0

(* ------------- the within-class scatter of VDA, on numbers ------------- *)

RECURSIVE Factorial(_)
Factorial(n) == IF n = 0 THEN 1 ELSE n * Factorial(n - 1)

\* Means over a class divide by the number of its rows, or by that number
\* times n; the numbers of this section are carried times ScatterScale(n),
\* which every such divisor divides, and Sw times its square.
ScatterScale(n) == n * Factorial(n)

\* The rows of the pooled set whose label is c: np.where(y == c)
Where(y, c) == {i \in DOMAIN y : y[i] = c}

RECURSIVE SumOver(_, _)
SumOver(f, S) ==
    IF S = {} THEN 0
    ELSE LET i == CHOOSE i \in S : TRUE IN f[i] + SumOver(f, S \ {i})

\* mean[c] = np.mean(K[np.where(y == c), :]): no axis is given, so this is
\* the one number averaging every entry of the rows of class c.
VDAClassMean(K, y, c) ==
    LET n == Len(K)
        rows == Where(y, c)
        total == SumOver([i \in rows |-> SumTo(K[i], n)], rows)
    IN  (ScatterScale(n) * total) \div (Cardinality(rows) * n)

\* diff = K[i] - mean[y[i]]: the row less the number.
VDADiff(K, y, i) ==
    [j \in DOMAIN K[i] |-> ScatterScale(Len(K)) * K[i][j] - VDAClassMean(K, y, y[i])]

\* The loop of lines 108-111: np.dot(diff.T, diff) of the one-dimensional
\* diff is its sum of squares, and np.add spreads that number over Sw.
VDAScatter(K, y) ==
    LET n == Len(K)
        dots == [i \in 1..n |->
                    SumTo([j \in 1..n |-> VDADiff(K, y, i)[j] * VDADiff(K, y, i)[j]], n)]
        total == SumTo(dots, n)
    IN  [a \in 1..n |-> [b \in 1..n |-> total]]

\* The fits that get as far as the scatter: one label per row, the same
\* classes on both sides, a kernel without not-a-number.
ScatterInputs ==
    { [op |-> "input", Xs |-> Xs, Xt |-> Xt, ys |-> ys, yt |-> yt,
       kernel_type |-> k] :
        Xs \in VDAMats, Xt \in VDAMats,
        ys \in UNION {LabelVecs(n) : n \in 1..MaxRowsVDA},
        yt \in UNION {LabelVecs(n) : n \in 1..MaxRowsVDA},
        k \in {"linear", "poly"} }

InitSc ==
    /\ driver = "VDA"
    /\ cfg = [n_components |-> 1, kernel_type |-> "linear"]
    /\ attrs = InitAttrs("VDA")
    /\ fitted = FALSE
    /\ pc = "idle"
    /\ last = NoCall
    /\ eg = NoEg
    /\ qf = NoQf
    /\ sc \in { s \in ScatterInputs :
                 /\ Len(s.ys) = Len(s.Xs) /\ Len(s.yt) = Len(s.Xt)
                 /\ Unique(s.ys) = Unique(s.yt)
                 /\ ~HasNaN(VDAGetKernel(s.Xs \o s.Xt, s.kernel_type)) }

\* Lines 101-111 of VDA.fit on the numeric instance.
VDAFormSw ==
    /\ sc.op = "input"
    /\ LET Kf == VDAGetKernel(sc.Xs \o sc.Xt, sc.kernel_type)
           K == [i \in DOMAIN Kf |-> [j \in DOMAIN Kf[i] |-> Kf[i][j][1]]]
           y == sc.ys \o sc.yt
       IN  sc' = [sc EXCEPT !.op = "Sw"] @@
                 [K |-> K, y |-> y, Sw |-> VDAScatter(K, y)]
    /\ UNCHANGED <<driver, cfg, attrs, fitted, pc, last, eg, qf>>

NextSc == VDAFormSw

SpecSc == InitSc /\ [][NextSc]_vars

\* The mean kernel row of class c, entry j.
MeanRowEntry(K, y, c, j) ==
    LET rows == Where(y, c)
    IN  (ScatterScale(Len(K)) * SumOver([i \in rows |-> K[i][j]], rows))
            \div Cardinality(rows)

\* The deviation of row i from the mean row of its class, entry j.
Deviation(K, y, i, j) ==
    ScatterScale(Len(K)) * K[i][j] - MeanRowEntry(K, y, y[i], j)

\* C11: Sw is the sum over the pooled rows i of the outer product of the
\* deviation of K[i] from the mean kernel row of the rows with i's label.
C11_ScatterIsOuterProductSum ==
    sc.op = "Sw" =>
        \A a \in DOMAIN sc.K : \A b \in DOMAIN sc.K :
            sc.Sw[a][b] =
                SumTo([i \in DOMAIN sc.K |->
                          Deviation(sc.K, sc.y, i, a) * Deviation(sc.K, sc.y, i, b)],
                      Len(sc.K))

\* C12: a VDA.fit whose ys and yt have different sets of distinct labels
\* never completes: it ends in an exit or an exception and components_ is
\* not assigned, whichever side has the extra class and whether or not 0 is
\* a label.
C12_LabelMismatchNeverCompletes ==
    (Returned("VDA", "fit") /\ Unique(last.args.ys) # Unique(last.args.yt))
        => /\ last.res.outcome # "ok"
           /\ attrs = last.before

\* A fit that passes the label test and the size test with a target class
\* that has no source row, 0 not being a label, on an instance holding a
\* basis.
C12_Witness ==
    /\ Returned("VDA", "fit")
    /\ Unique(last.args.ys) # Unique(last.args.yt)
    /\ Unique(last.args.ys) \subseteq Unique(last.args.yt)
    /\ 0 \notin Unique(last.args.ys) \cup Unique(last.args.yt)
    /\ last.res.at = "mean"
    /\ HasAttr(last.before, "components_")

\* C13: an ARSVM.fit that fails at the Laplacian or in the QP solve, on an
\* instance an earlier fit completed on, leaves coef_, support_, X, y and
\* the label binarizer as they were.
C13_FailedFitKeepsPredictState ==
    (/\ Returned("ARSVM", "fit")
     /\ last.res.outcome \in {"ValueError", "SolverError"}
     /\ HasAttr(last.before, "X"))
        => \A a \in {"coef_", "support_", "X", "y", "_lb"} :
               attrs[a] = last.before[a]

====
